---------------------------- MODULE Spec2Model ----------------------------
(***************************************************************************)
(* Marker-identity registry and real-time resolution loop of               *)
(* Research_conclave/Dinner_checking:                                      *)
(*   Generate.py  generate_markers_and_map_nested  (registry + markers)    *)
(*   detect.py    load_resources                   (asset loader)          *)
(*   detect.py    main                             (resolution loop)       *)
(*                                                                         *)
(* Strings are sequences of character codes (ASCII), so that lower(),      *)
(* endswith(), splitext(), sorted(), str() and int() are computed the way  *)
(* Python computes them.                                                   *)
(***************************************************************************)
EXTENDS Integers, Sequences, FiniteSets, TLC

VARIABLES
    \* ---- Generate.py: generate_markers_and_map_nested ----
    fs_walk,              \* what os.walk(input_dir) yields: <<[rel, files]>>
    gen_pc,               \* position in generate_markers_and_map_nested
    dict_type,            \* the dict_type argument
    di,                   \* number of os.walk tuples consumed
    pending,              \* rest of sorted(filenames) of the current folder
    cur_rel,              \* relative_subfolder of the current folder
    current_marker_id,    \* Generate.py:52
    image_to_marker_map,  \* Generate.py:51  str(id) -> relative image path
    marker_files,         \* output_path -> id of the marker image stored there
    made_dirs,            \* directories created with os.makedirs
    map_file,             \* content of MAP_FILE on disk ("absent" or the map)
    enc_failures,         \* number of generateImageMarker calls that raised
    \* ---- detect.py: load_resources ----
    json_map,             \* items of the JSON map, in file order
    asset_fs,             \* image file path -> [h, w] of the image it decodes to
    ld_pc,                \* position in load_resources
    ld_i,                 \* number of json_map items processed
    image_asset_map,      \* detect.py:47  int id -> decoded image
    warnings,             \* per-entry warning / error lines printed
    ld_result,            \* "pending", "None" or "table"
    \* ---- detect.py: main ----
    image_map,            \* detect.py:74  the asset table used by the loop
    loop_pc,              \* position in main
    ids,                  \* detector result of this frame: "None" or <<id,..>>
    found_mapped_marker,  \* detect.py:115
    first_id,             \* detect.py:122
    geom,                 \* [new_h, new_w, y_offset, x_offset] of this frame
    pasted,               \* canvas region written by line 144, or "none"
    prompt,               \* the "Scan an ArUco Code" text was drawn
    shown,                \* windows presented in this iteration
    key_checks,           \* cv2.waitKey calls made in this iteration
    exit_cause,           \* how the while loop was left
    cap_released          \* cap.release() was executed

genVars  == <<fs_walk, gen_pc, dict_type, di, pending, cur_rel,
              current_marker_id, image_to_marker_map, marker_files,
              made_dirs, map_file, enc_failures>>
loadVars == <<json_map, asset_fs, ld_pc, ld_i, image_asset_map, warnings,
              ld_result>>
loopVars == <<image_map, loop_pc, ids, found_mapped_marker, first_id, geom,
              pasted, prompt, shown, key_checks, exit_cause, cap_released>>
vars     == <<genVars, loadVars, loopVars>>

---------------------------------------------------------------------------
(* Bounds of the model *)

\* total number of files in a small asset tree
MaxFiles == 3

---------------------------------------------------------------------------
(* Python string functions on sequences of character codes *)

\* str.lower() on ASCII
Lower(s) == [i \in DOMAIN s |-> IF s[i] >= 65 /\ s[i] <= 90 THEN s[i] + 32 ELSE s[i]]

\* s.endswith(suf)
EndsWith(s, suf) ==
    /\ Len(suf) <= Len(s)
    /\ SubSeq(s, Len(s) - Len(suf) + 1, Len(s)) = suf

\* a < b for Python str: by code point, a proper prefix is smaller
RECURSIVE StrLess(_, _)
StrLess(a, b) ==
    IF b = <<>> THEN FALSE
    ELSE IF a = <<>> THEN TRUE
    ELSE IF Head(a) # Head(b) THEN Head(a) < Head(b)
    ELSE StrLess(Tail(a), Tail(b))

\* insert x into the ascending sequence s, after the elements equal to it
RECURSIVE Insert(_, _)
Insert(x, s) ==
    IF s = <<>> THEN <<x>>
    ELSE IF StrLess(x, Head(s)) THEN <<x>> \o s
    ELSE <<Head(s)>> \o Insert(x, Tail(s))

\* sorted(seq) for a list of str
RECURSIVE Sorted(_)
Sorted(s) == IF s = <<>> THEN <<>> ELSE Insert(s[Len(s)], Sorted(SubSeq(s, 1, Len(s) - 1)))

\* s.rfind(c), 1-based, 0 when absent
RECURSIVE RFind(_, _)
RFind(s, c) ==
    IF s = <<>> THEN 0
    ELSE IF s[Len(s)] = c THEN Len(s)
    ELSE RFind(SubSeq(s, 1, Len(s) - 1), c)

\* os.path.splitext(p)[0] for a file name without separators: cut at the last
\* dot unless only dots precede it
SplitextRoot(p) ==
    LET dot == RFind(p, 46)
    IN  IF dot > 0 /\ \E i \in 1..(dot - 1) : p[i] # 46
        THEN SubSeq(p, 1, dot - 1)
        ELSE p

\* s.replace("\\", "/")
ReplaceBackslash(s) == [i \in DOMAIN s |-> IF s[i] = 92 THEN 47 ELSE s[i]]

\* os.path.join(a, b) for a relative b
PathJoin(a, b) == a \o <<47>> \o b

\* str(n) for n >= 0
RECURSIVE IntToStr(_)
IntToStr(n) == IF n < 10 THEN <<48 + n>> ELSE IntToStr(n \div 10) \o <<48 + (n % 10)>>

\* int(s) succeeds (decimal digits only are modelled; "" and letters raise
\* ValueError)
IsIntStr(s) == s # <<>> /\ \A i \in DOMAIN s : s[i] >= 48 /\ s[i] <= 57

\* int(s) for a string of decimal digits
RECURSIVE StrToInt(_)
StrToInt(s) ==
    IF s = <<>> THEN 0
    ELSE 10 * StrToInt(SubSeq(s, 1, Len(s) - 1)) + (s[Len(s)] - 48)

---------------------------------------------------------------------------
(* Generate.py configuration *)

\* ".png", ".jpg", ".jpeg", ".bmp", ".tiff"
valid_extensions ==
    { <<46, 112, 110, 103>>, <<46, 106, 112, 103>>, <<46, 106, 112, 101, 103>>,
      <<46, 98, 109, 112>>, <<46, 116, 105, 102, 102>> }

GEN_ARUCO_DICTIONARY_TYPE == "DICT_6X6_1000"
DET_ARUCO_DICTIONARY_TYPE == "DICT_6X6_250"

\* number of markers of a predefined dictionary: generateImageMarker and the
\* detector handle the identities 0 .. DictSize - 1 only
DictSize(t) == IF t = "DICT_6X6_1000" THEN 1000 ELSE 250

\* MARKER_OUTPUT_FOLDER, shortened to "OUT"
MARKER_OUTPUT_FOLDER == <<79, 85, 84>>

\* relpath of the input folder itself
DotRel == <<46>>

---------------------------------------------------------------------------
(* The asset trees the generator is run on *)

\* file names: "a.png", "a.JPG", "b.txt", "bpng"
FileNames ==
    { <<97, 46, 112, 110, 103>>, <<97, 46, 74, 80, 71>>,
      <<98, 46, 116, 120, 116>>, <<98, 112, 110, 103>> }

\* subfolders: "A", "B", "A/C"
SubDirs == { <<65>>, <<66>>, <<65, 47, 67>> }

\* d lies below p in the tree
IsBelow(d, p) ==
    \/ p = DotRel /\ d # DotRel
    \/ /\ Len(d) > Len(p) + 1
       /\ SubSeq(d, 1, Len(p) + 1) = p \o <<47>>

\* sets of subfolders in which every folder has its parent
TreeShapes ==
    { D \in SUBSET SubDirs :
        \A d \in D : \A p \in SubDirs : IsBelow(d, p) => p \in D }

\* all orderings of a finite set
RECURSIVE Perms(_)
Perms(S) ==
    IF S = {} THEN { <<>> }
    ELSE UNION { { <<x>> \o p : p \in Perms(S \ {x}) } : x \in S }

\* top-down os.walk: a folder is yielded before everything below it, and what
\* lies below it follows it without interruption; the order among sibling
\* folders is the order the filesystem lists them in
IsWalkOrder(w) ==
    /\ w[1] = DotRel
    /\ \A i, j \in DOMAIN w :
         IsBelow(w[j], w[i]) =>
             /\ j > i
             /\ \A k \in (i + 1)..j : IsBelow(w[k], w[i])

WalkOrders(D) == { w \in Perms(D \cup {DotRel}) : IsWalkOrder(w) }

\* the subsets of S with at most k elements
RECURSIVE SubsetsUpTo(_, _)
SubsetsUpTo(S, k) ==
    IF k = 0 THEN { {} }
    ELSE LET prev == SubsetsUpTo(S, k - 1)
         IN  prev \cup { T \cup {x} : T \in prev, x \in S }

\* the listings of the folders w[i..]: each folder's files in any order
RECURSIVE Listings(_, _, _)
Listings(w, P, i) ==
    IF i > Len(w) THEN { <<>> }
    ELSE { <<[rel |-> w[i], files |-> l]>> \o rest :
             l \in Perms({ n \in FileNames : <<w[i], n>> \in P }),
             rest \in Listings(w, P, i + 1) }

\* the trees with the subfolders D: every walk order, every placement of at
\* most MaxFiles files, every listing order
TreesOn(D) ==
    UNION { UNION { Listings(w, P, 1) :
                      P \in SubsetsUpTo(({DotRel} \cup D) \X FileNames, MaxFiles) }
            : w \in WalkOrders(D) }

SmallTrees == UNION { TreesOn(D) : D \in TreeShapes }

\* "d<i>"
DirName(i) == <<100>> \o IntToStr(i)

\* a tree of n subfolders "d1" .. "dn", each holding the one image "a.png"
LargeTree(n) ==
    [i \in 1..(n + 1) |->
        IF i = 1 THEN [rel |-> DotRel, files |-> <<>>]
        ELSE [rel |-> DirName(i - 1), files |-> << <<97, 46, 112, 110, 103>> >>]]

\* file counts around the sizes of the two dictionaries
LargeCounts == { 0, DictSize(DET_ARUCO_DICTIONARY_TYPE) + 1,
                 DictSize(GEN_ARUCO_DICTIONARY_TYPE) + 1 }

LargeTrees == { LargeTree(n) : n \in LargeCounts }

---------------------------------------------------------------------------
(* Generate.py: generate_markers_and_map_nested *)

\* the test without lower()
IsValidImageCaseSensitive(filename) ==
    \E e \in valid_extensions : EndsWith(filename, e)

\* line 84: filename.lower().endswith(valid_extensions)
IsValidImage(filename) ==
    \E e \in valid_extensions : EndsWith(Lower(filename), e)

\* lines 102-103: base_name + ".png"
MarkerFilename(filename) == SplitextRoot(filename) \o <<46, 112, 110, 103>>

\* lines 72, 106: os.path.join(os.path.join(output_dir, rel), marker_filename)
OutputPath(rel, filename) ==
    PathJoin(PathJoin(MARKER_OUTPUT_FOLDER, rel), MarkerFilename(filename))

\* line 112
RelativeImagePath(rel, filename) == ReplaceBackslash(PathJoin(rel, filename))

\* an identity is left out
NextMarkerIdSkipping(id) == id + 2

\* line 118: current_marker_id += 1
NextMarkerId(id) == id + 1

\* line 68: the root folder itself is skipped
IsSkippedFolder(rel) == rel = DotRel

\* f with key k set to v
Put(f, k, v) == [x \in DOMAIN f \cup {k} |-> IF x = k THEN v ELSE f[x]]

EmptyMap == [x \in {} |-> 0]

GenInitCommon ==
    /\ gen_pc = "start"
    /\ dict_type = GEN_ARUCO_DICTIONARY_TYPE
    /\ di = 0
    /\ pending = <<>>
    /\ cur_rel = DotRel
    /\ current_marker_id = 0
    /\ image_to_marker_map = EmptyMap
    /\ marker_files = EmptyMap
    /\ made_dirs = {}
    /\ map_file = "absent"
    /\ enc_failures = 0

\* lines 31-54: the dictionary, the input folder, the root output folder
GenStart ==
    /\ gen_pc = "start"
    /\ \E aruco_ok \in BOOLEAN, input_isdir \in BOOLEAN :
         IF ~aruco_ok THEN
             /\ gen_pc' = "no_aruco"
             /\ made_dirs' = made_dirs
         ELSE IF ~input_isdir THEN
             /\ gen_pc' = "no_input"
             /\ made_dirs' = made_dirs
         ELSE
             /\ gen_pc' = "walk"
             /\ made_dirs' = made_dirs \cup {MARKER_OUTPUT_FOLDER}
    /\ current_marker_id' = 0
    /\ image_to_marker_map' = EmptyMap
    /\ UNCHANGED <<fs_walk, dict_type, di, pending, cur_rel, marker_files,
                   map_file, enc_failures>>
    /\ UNCHANGED <<loadVars, loopVars>>

\* lines 58-80: the next (dirpath, dirnames, filenames) of os.walk
GenWalkDir ==
    /\ gen_pc = "walk"
    /\ di < Len(fs_walk)
    /\ LET d == fs_walk[di + 1]
       IN  /\ di' = di + 1
           /\ cur_rel' = d.rel
           /\ IF IsSkippedFolder(d.rel) THEN
                  /\ UNCHANGED <<made_dirs, pending, gen_pc>>
              ELSE
                  /\ made_dirs' = made_dirs \cup {PathJoin(MARKER_OUTPUT_FOLDER, d.rel)}
                  /\ IF d.files = <<>> THEN
                         UNCHANGED <<pending, gen_pc>>
                     ELSE
                         /\ pending' = Sorted(d.files)
                         /\ gen_pc' = "files"
    /\ UNCHANGED <<fs_walk, dict_type, current_marker_id, image_to_marker_map,
                   marker_files, map_file, enc_failures>>
    /\ UNCHANGED <<loadVars, loopVars>>

\* lines 82-118: one iteration of "for filename in sorted(filenames)"
GenProcessFile ==
    /\ gen_pc = "files"
    /\ pending # <<>>
    /\ LET filename == Head(pending)
           after    == IF Tail(pending) = <<>> THEN "walk" ELSE "files"
       IN  IF ~IsValidImage(filename) THEN
               /\ pending' = Tail(pending)
               /\ gen_pc' = after
               /\ UNCHANGED <<current_marker_id, image_to_marker_map,
                              marker_files, enc_failures>>
           ELSE IF current_marker_id >= DictSize(dict_type) THEN
               \* generateImageMarker raises cv2.error; nothing catches it
               /\ enc_failures' = enc_failures + 1
               /\ gen_pc' = "crashed"
               /\ UNCHANGED <<pending, current_marker_id, image_to_marker_map,
                              marker_files>>
           ELSE
               /\ marker_files' = Put(marker_files, OutputPath(cur_rel, filename),
                                      current_marker_id)
               /\ image_to_marker_map' =
                      Put(image_to_marker_map, IntToStr(current_marker_id),
                          RelativeImagePath(cur_rel, filename))
               /\ current_marker_id' = NextMarkerId(current_marker_id)
               /\ pending' = Tail(pending)
               /\ gen_pc' = after
               /\ UNCHANGED enc_failures
    /\ UNCHANGED <<fs_walk, dict_type, di, cur_rel, made_dirs, map_file>>
    /\ UNCHANGED <<loadVars, loopVars>>

\* lines 120-129: os.walk is exhausted
GenFinish ==
    /\ gen_pc = "walk"
    /\ di = Len(fs_walk)
    /\ IF DOMAIN image_to_marker_map = {} THEN
           /\ gen_pc' = "no_images"
           /\ UNCHANGED map_file
       ELSE
           /\ map_file' = image_to_marker_map
           /\ gen_pc' = "written"
    /\ UNCHANGED <<fs_walk, dict_type, di, pending, cur_rel, current_marker_id,
                   image_to_marker_map, marker_files, made_dirs, enc_failures>>
    /\ UNCHANGED <<loadVars, loopVars>>

GenNext == GenStart \/ GenWalkDir \/ GenProcessFile \/ GenFinish

---------------------------------------------------------------------------
(* detect.py: load_resources *)

\* IMAGE_FOLDER_PATH, shortened to "ID"
IMAGE_FOLDER_PATH == <<73, 68>>

\* keys of the JSON map: "0", "1", "01", "x"
KeyStrs == { <<48>>, <<49>>, <<48, 49>>, <<120>> }

\* values of the JSON map: "A/a.png", "A/b.png"
AssetPaths == { <<65, 47, 97, 46, 112, 110, 103>>, <<65, 47, 98, 46, 112, 110, 103>> }

\* the image stored in a file, as its shape [h, w]
ImageOf(path) == IF path[Len(path) - 4] = 97 THEN [h |-> 400, w |-> 800]
                 ELSE [h |-> 300, w |-> 300]

\* an item of the JSON map; a value that is no string (is_str = FALSE) makes
\* os.path.join raise TypeError
JsonItems ==
    [key : KeyStrs, val : AssetPaths, is_str : {TRUE}]
        \cup [key : KeyStrs, val : {<<>>}, is_str : {FALSE}]

\* the JSON objects of at most n items: keys are distinct
RECURSIVE JsonMaps(_)
JsonMaps(n) ==
    IF n = 0 THEN { <<>> }
    ELSE LET prev == JsonMaps(n - 1)
         IN  prev \cup { Append(m, e) : m \in prev, e \in JsonItems }

HasDistinctKeys(m) == \A i, j \in DOMAIN m : m[i].key = m[j].key => i = j

\* the files under the image folder that cv2.imread can decode
AssetFilesystems ==
    { [p \in { PathJoin(IMAGE_FOLDER_PATH, q) : q \in Q } |-> ImageOf(p)] :
        Q \in SUBSET AssetPaths }

LoadInitCommon ==
    /\ ld_pc = "start"
    /\ ld_i = 0
    /\ image_asset_map = EmptyMap
    /\ warnings = 0
    /\ ld_result = "pending"

\* lines 27-47: open and parse the map, check the image folder
LoadStart ==
    /\ ld_pc = "start"
    /\ \E map_state \in {"ok", "missing", "corrupt"}, folder_isdir \in BOOLEAN :
         IF map_state = "missing" THEN
             ld_pc' = "no_map" /\ ld_result' = "None"
         ELSE IF map_state = "corrupt" THEN
             ld_pc' = "bad_map" /\ ld_result' = "None"
         ELSE IF ~folder_isdir THEN
             ld_pc' = "no_folder" /\ ld_result' = "None"
         ELSE
             ld_pc' = "loop" /\ ld_result' = "pending"
    /\ image_asset_map' = EmptyMap
    /\ UNCHANGED <<json_map, asset_fs, ld_i, warnings>>
    /\ UNCHANGED <<genVars, loopVars>>

\* what one item of the map does: "loaded", or the branch that reports it
LoadOutcome(e, files) ==
    IF ~IsIntStr(e.key) THEN "ValueError"
    ELSE IF ~e.is_str THEN "Exception"
    ELSE IF PathJoin(IMAGE_FOLDER_PATH, e.val) \in DOMAIN files THEN "loaded"
    ELSE "imread_none"

\* a failed item ends the loading
AfterFailureAbort(i, n) == n

\* lines 58-64: after a failed item the loop goes on with the next one
AfterFailure(i, n) == i + 1

\* lines 49-64: one iteration of "for marker_id_str, filename in json_map.items()"
LoadEntry ==
    /\ ld_pc = "loop"
    /\ ld_i < Len(json_map)
    /\ LET e == json_map[ld_i + 1]
           o == LoadOutcome(e, asset_fs)
       IN  IF o = "loaded" THEN
               /\ image_asset_map' =
                      Put(image_asset_map, StrToInt(e.key),
                          asset_fs[PathJoin(IMAGE_FOLDER_PATH, e.val)])
               /\ ld_i' = ld_i + 1
               /\ UNCHANGED warnings
           ELSE
               /\ warnings' = warnings + 1
               /\ ld_i' = AfterFailure(ld_i, Len(json_map))
               /\ UNCHANGED image_asset_map
    /\ UNCHANGED <<json_map, asset_fs, ld_pc, ld_result>>
    /\ UNCHANGED <<genVars, loopVars>>

\* lines 66-70
LoadFinish ==
    /\ ld_pc = "loop"
    /\ ld_i = Len(json_map)
    /\ ld_pc' = "done"
    /\ ld_result' = IF DOMAIN image_asset_map = {} THEN "None" ELSE "table"
    /\ UNCHANGED <<json_map, asset_fs, ld_i, image_asset_map, warnings>>
    /\ UNCHANGED <<genVars, loopVars>>

LoadNext == LoadStart \/ LoadEntry \/ LoadFinish

---------------------------------------------------------------------------
(* detect.py: main *)

DISPLAY_WINDOW_HEIGHT == 600
DISPLAY_WINDOW_WIDTH == 800

\* ord('q')
ORD_Q == 113

\* number of identities in one detector result
MaxDetections == 3

\* largest factor of the image sides of the rendering specification
MaxSide == 16

\* identities the asset table may hold
TableIds == { 3, 7, 250 }

\* identities shown to the camera; the detector reports those of its dictionary
ShownIds == { 3, 7, 9, 250 }

DetectableIds == { i \in ShownIds : i < DictSize(DET_ARUCO_DICTIONARY_TYPE) }

\* detectMarkers: ids is None (modelled as <<>>) or a non-empty array of ids
RECURSIVE SeqsUpTo(_, _)
SeqsUpTo(S, n) ==
    IF n = 0 THEN { <<>> }
    ELSE LET prev == SeqsUpTo(S, n - 1)
         IN  prev \cup { Append(q, x) : q \in prev, x \in S }

Detections == SeqsUpTo(DetectableIds, MaxDetections)

\* image shapes of the assets of the loop: an ordinary card, a one-pixel strip
LoopShapes == { [h |-> 400, w |-> 800], [h |-> 1, w |-> 801] }

\* what load_resources may return to main: a non-empty table
TablesOver(idset, shapes) ==
    UNION { [K -> shapes] : K \in (SUBSET idset) \ {{}} }

LoopTables == TablesOver(TableIds, LoopShapes)

\* sides 1..MaxSide pixels, the multiples of 97 up to 97 * MaxSide (800 / 97
\* is not exact in binary), and the sides of a 400 x 800 card
RenderSides == (1..MaxSide) \cup { 97 * k : k \in 1..MaxSide } \cup { 400, 800 }

RenderTables == TablesOver({7}, [h : RenderSides, w : RenderSides])

RECURSIVE Gcd(_, _)
Gcd(a, b) == IF b = 0 THEN a ELSE Gcd(b, a % b)

RECURSIVE IsPow2(_)
IsPow2(n) == IF n = 1 THEN TRUE ELSE IF n % 2 = 1 THEN FALSE ELSE IsPow2(n \div 2)

\* line 133: scale = min(disp_h / img_h, disp_w / img_w), as the fraction
\* num / den that the float approximates
ScaleOf(img) ==
    IF DISPLAY_WINDOW_HEIGHT * img.w <= DISPLAY_WINDOW_WIDTH * img.h
    THEN [num |-> DISPLAY_WINDOW_HEIGHT, den |-> img.h]
    ELSE [num |-> DISPLAY_WINDOW_WIDTH, den |-> img.w]

\* lines 135-136: int(side * scale) in double precision. The quotient is
\* exact when den / gcd is a power of two; otherwise a product whose exact
\* value is the integer m may come out just below m and truncate to m - 1
ScaledSide(side, sc) ==
    LET m == (side * sc.num) \div sc.den
    IN  IF IsPow2(sc.den \div Gcd(sc.num, sc.den)) \/ (side * sc.num) % sc.den # 0
        THEN { m }
        ELSE { m, m - 1 }

\* the whole margin on one side
OffsetNotHalved(canvas, scaled) == canvas - scaled

\* lines 140-141
Offset(canvas, scaled) == (canvas - scaled) \div 2

\* the first detected identity that is a key of the table
ResolveFrameAnyMapped(dids, table) ==
    IF \E i \in DOMAIN dids : dids[i] \in DOMAIN table
    THEN [found |-> TRUE,
          id |-> dids[CHOOSE i \in DOMAIN dids :
                        /\ dids[i] \in DOMAIN table
                        /\ \A j \in 1..(i - 1) : dids[j] \notin DOMAIN table]]
    ELSE [found |-> FALSE, id |-> -1]

\* lines 117-127: which identity, if any, the frame shows
ResolveFrame(dids, table) ==
    IF dids = <<>> THEN [found |-> FALSE, id |-> -1]
    ELSE IF dids[1] \in DOMAIN table THEN [found |-> TRUE, id |-> dids[1]]
    ELSE [found |-> FALSE, id |-> dids[1]]

\* line 162: cv2.waitKey(1) & 0xFF == ord('q')
IsQuitKey(k) == (k % 256) = ORD_Q

\* what cv2.waitKey(1) returns: no key, 'q', 'Q', 'q' with a modifier flag
KeyCodes == { -1, 113, 81, 1048689 }

NoGeom == [new_h |-> 0, new_w |-> 0, y_offset |-> 0, x_offset |-> 0]
NoPaste == [on |-> FALSE, y0 |-> 0, y1 |-> 0, x0 |-> 0, x1 |-> 0]

LoopInitCommon ==
    /\ image_map = EmptyMap
    /\ loop_pc = "start"
    /\ ids = <<>>
    /\ found_mapped_marker = FALSE
    /\ first_id = -1
    /\ geom = NoGeom
    /\ pasted = NoPaste
    /\ prompt = FALSE
    /\ shown = {}
    /\ key_checks = 0
    /\ exit_cause = "none"
    /\ cap_released = FALSE

\* lines 73-102: load the table, create the detector, open the camera
MainStart(tables) ==
    /\ loop_pc = "start"
    /\ \E loaded \in tables \cup {EmptyMap}, aruco_ok \in BOOLEAN, opened \in BOOLEAN :
         \* load_resources never returns an empty table: EmptyMap stands for None
         IF loaded = EmptyMap THEN
             loop_pc' = "no_table" /\ UNCHANGED image_map
         ELSE IF ~aruco_ok THEN
             loop_pc' = "no_aruco" /\ image_map' = loaded
         ELSE IF ~opened THEN
             loop_pc' = "no_camera" /\ image_map' = loaded
         ELSE
             loop_pc' = "read" /\ image_map' = loaded
    /\ UNCHANGED <<ids, found_mapped_marker, first_id, geom, pasted, prompt,
                   shown, key_checks, exit_cause, cap_released>>
    /\ UNCHANGED <<genVars, loadVars>>

\* lines 104-108: cap.read()
LoopRead ==
    /\ loop_pc = "read"
    /\ \E ret \in BOOLEAN :
         IF ret THEN loop_pc' = "detect" /\ UNCHANGED exit_cause
         ELSE loop_pc' = "cleanup" /\ exit_cause' = "no_frame"
    /\ shown' = {}
    /\ key_checks' = 0
    /\ UNCHANGED <<image_map, ids, found_mapped_marker, first_id, geom, pasted,
                   prompt, cap_released>>
    /\ UNCHANGED <<genVars, loadVars>>

\* line 111: detector.detectMarkers(frame)
LoopDetect ==
    /\ loop_pc = "detect"
    /\ ids' \in Detections
    /\ loop_pc' = "resolve"
    /\ UNCHANGED <<image_map, found_mapped_marker, first_id, geom, pasted, prompt,
                   shown, key_checks, exit_cause, cap_released>>
    /\ UNCHANGED <<genVars, loadVars>>

\* lines 113-155: a fresh canvas, the lookup, the scaled asset or the prompt
LoopResolve ==
    /\ loop_pc = "resolve"
    /\ LET r == ResolveFrame(ids, image_map)
       IN  /\ found_mapped_marker' = r.found
           /\ first_id' = r.id
           /\ IF r.found THEN
                  LET img == image_map[r.id]
                      sc  == ScaleOf(img)
                  IN  \E nw \in ScaledSide(img.w, sc), nh \in ScaledSide(img.h, sc) :
                        LET yo == Offset(DISPLAY_WINDOW_HEIGHT, nh)
                            xo == Offset(DISPLAY_WINDOW_WIDTH, nw)
                        IN  IF nw <= 0 \/ nh <= 0 THEN
                                \* cv2.resize raises cv2.error for an empty size
                                /\ geom' = [NoGeom EXCEPT !.new_h = nh, !.new_w = nw]
                                /\ pasted' = NoPaste
                                /\ prompt' = FALSE
                                /\ loop_pc' = "crashed"
                                /\ exit_cause' = "exception"
                            ELSE IF yo < 0 \/ xo < 0
                                    \/ yo + nh > DISPLAY_WINDOW_HEIGHT
                                    \/ xo + nw > DISPLAY_WINDOW_WIDTH THEN
                                \* the slice is smaller than the resized image:
                                \* the assignment raises ValueError
                                /\ geom' = [new_h |-> nh, new_w |-> nw,
                                            y_offset |-> yo, x_offset |-> xo]
                                /\ pasted' = NoPaste
                                /\ prompt' = FALSE
                                /\ loop_pc' = "crashed"
                                /\ exit_cause' = "exception"
                            ELSE
                                /\ geom' = [new_h |-> nh, new_w |-> nw,
                                            y_offset |-> yo, x_offset |-> xo]
                                /\ pasted' = [on |-> TRUE, y0 |-> yo, y1 |-> yo + nh,
                                              x0 |-> xo, x1 |-> xo + nw]
                                /\ prompt' = FALSE
                                /\ loop_pc' = "present"
                                /\ UNCHANGED exit_cause
              ELSE
                  /\ geom' = NoGeom
                  /\ pasted' = NoPaste
                  /\ prompt' = TRUE
                  /\ loop_pc' = "present"
                  /\ UNCHANGED exit_cause
    /\ UNCHANGED <<image_map, ids, shown, key_checks, cap_released>>
    /\ UNCHANGED <<genVars, loadVars>>

\* lines 158-159: both windows
LoopPresent ==
    /\ loop_pc = "present"
    /\ shown' = {"Camera Feed", "AR Display"}
    /\ loop_pc' = "waitkey"
    /\ UNCHANGED <<image_map, ids, found_mapped_marker, first_id, geom, pasted,
                   prompt, key_checks, exit_cause, cap_released>>
    /\ UNCHANGED <<genVars, loadVars>>

\* lines 162-163: the key check
LoopWaitKey ==
    /\ loop_pc = "waitkey"
    /\ key_checks' = key_checks + 1
    /\ \E k \in KeyCodes :
         IF IsQuitKey(k) THEN loop_pc' = "cleanup" /\ exit_cause' = "quit"
         ELSE loop_pc' = "read" /\ UNCHANGED exit_cause
    /\ UNCHANGED <<image_map, ids, found_mapped_marker, first_id, geom, pasted,
                   prompt, shown, cap_released>>
    /\ UNCHANGED <<genVars, loadVars>>

\* lines 166-167: cap.release(), cv2.destroyAllWindows()
LoopCleanup ==
    /\ loop_pc = "cleanup"
    /\ cap_released' = TRUE
    /\ loop_pc' = "done"
    /\ UNCHANGED <<image_map, ids, found_mapped_marker, first_id, geom, pasted,
                   prompt, shown, key_checks, exit_cause>>
    /\ UNCHANGED <<genVars, loadVars>>

LoopSteps == LoopRead \/ LoopDetect \/ LoopResolve \/ LoopPresent \/ LoopWaitKey
                 \/ LoopCleanup

---------------------------------------------------------------------------
(* Specifications *)

\* the generator on every small asset tree
GenInit ==
    /\ fs_walk \in SmallTrees
    /\ GenInitCommon
    /\ json_map = <<>> /\ asset_fs = EmptyMap /\ LoadInitCommon
    /\ LoopInitCommon

SpecGen == GenInit /\ [][GenNext]_vars

\* the generator on trees with more files than a dictionary has markers
GenLargeInit ==
    /\ fs_walk \in LargeTrees
    /\ GenInitCommon
    /\ json_map = <<>> /\ asset_fs = EmptyMap /\ LoadInitCommon
    /\ LoopInitCommon

SpecGenLarge == GenLargeInit /\ [][GenNext]_vars

\* number of items in the JSON map
MaxEntries == 3

\* the loader on every small registry and image folder
LoadInit ==
    /\ json_map \in { m \in JsonMaps(MaxEntries) : HasDistinctKeys(m) }
    /\ asset_fs \in AssetFilesystems
    /\ LoadInitCommon
    /\ fs_walk = <<>> /\ GenInitCommon
    /\ LoopInitCommon

SpecLoad == LoadInit /\ [][LoadNext]_vars

IdleInit ==
    /\ fs_walk = <<>> /\ GenInitCommon
    /\ json_map = <<>> /\ asset_fs = EmptyMap /\ LoadInitCommon
    /\ LoopInitCommon

\* the resolution loop on every small asset table
LoopNext == MainStart(LoopTables) \/ LoopSteps

SpecLoop == IdleInit /\ [][LoopNext]_vars

\* the resolution loop on one asset of every shape
RenderNext == MainStart(RenderTables) \/ LoopSteps

SpecRender == IdleInit /\ [][RenderNext]_vars

Spec == SpecLoop

---------------------------------------------------------------------------
(* Properties of the resolution loop *)

\* the lookup of this iteration has been made
Resolved == loop_pc \in {"present", "waitkey", "crashed"}

\* C1: in every iteration, whatever the earlier frames resolved to, the frame
\* resolves to SHOWING(i) exactly when the detector returned at least one
\* identity, i is the first one returned and i is a key of the asset table;
\* in every other case (nothing detected, or the first identity is no key,
\* even when a later one is) it resolves to WAITING and the prompt is drawn.
FirstDetectedWins ==
    Resolved =>
        /\ found_mapped_marker <=> (ids # <<>> /\ ids[1] \in DOMAIN image_map)
        /\ found_mapped_marker => first_id = ids[1] /\ ~prompt
        /\ ~found_mapped_marker => prompt /\ ~pasted.on

\* a frame whose first identity is no key of the table and whose second is
LaterKeyIgnored ==
    /\ loop_pc = "present"
    /\ Len(ids) = 2
    /\ ids[1] \notin DOMAIN image_map
    /\ ids[2] \in DOMAIN image_map
    /\ ~found_mapped_marker
    /\ prompt

LoopLeftOnlyTwoWays ==
    /\ loop_pc \in {"cleanup", "done", "crashed"} =>
           exit_cause \in {"no_frame", "quit"}
    /\ exit_cause = "no_frame" => shown = {} /\ key_checks = 0
    /\ exit_cause = "quit" =>
           shown = {"Camera Feed", "AR Display"} /\ key_checks = 1
    /\ loop_pc = "done" => cap_released

---------------------------------------------------------------------------
(* Properties of the loader *)

\* the items whose key is an identity and whose image decodes
DecodedItems ==
    { i \in DOMAIN json_map :
        /\ IsIntStr(json_map[i].key)
        /\ json_map[i].is_str
        /\ PathJoin(IMAGE_FOLDER_PATH, json_map[i].val) \in DOMAIN asset_fs }

\* C5: given a readable registry and an existing asset root, load_resources
\* processes every entry even after earlier ones failed: the table has a key
\* for exactly the identities whose image decoded, one warning is reported
\* per failed entry, and None is returned if and only if no entry decoded.
LoaderSkipsFailedEntries ==
    ld_pc = "done" =>
        /\ ld_i = Len(json_map)
        /\ DOMAIN image_asset_map = { StrToInt(json_map[i].key) : i \in DecodedItems }
        /\ warnings = Cardinality(DOMAIN json_map \ DecodedItems)
        /\ ld_result = "None" <=> DecodedItems = {}
        /\ ld_result = "table" <=> DecodedItems # {}

\* a registry whose first entry fails and whose two other entries load
OneWarningTwoAssets ==
    /\ ld_pc = "done"
    /\ Len(json_map) = 3
    /\ 1 \notin DecodedItems
    /\ warnings = 1
    /\ Cardinality(DOMAIN image_asset_map) = 2
    /\ ld_result = "table"

---------------------------------------------------------------------------
(* Properties of the generator *)

\* the scan has come to its end
Scanned == gen_pc \in {"written", "no_images"}

\* the name ends, whatever the case of its letters, with a recognized extension
HasImageExtension(name) ==
    \E e \in valid_extensions :
        /\ Len(name) >= Len(e)
        /\ \A i \in DOMAIN e :
             LET c == name[Len(name) - Len(e) + i]
             IN  c = e[i] \/ (c >= 65 /\ c <= 90 /\ c + 32 = e[i])

\* the image files listed in the i-th folder of the walk
ImagesIn(i) ==
    { fs_walk[i].files[j] :
        j \in { j \in DOMAIN fs_walk[i].files : HasImageExtension(fs_walk[i].files[j]) } }

\* the image files of the subfolders, at any depth, as relative paths
SubfolderImages ==
    UNION { { fs_walk[i].rel \o <<47>> \o f : f \in ImagesIn(i) } :
              i \in { i \in DOMAIN fs_walk : fs_walk[i].rel # DotRel } }

\* the image files placed directly in the asset root
RootImages ==
    UNION { ImagesIn(i) : i \in { i \in DOMAIN fs_walk : fs_walk[i].rel = DotRel } }

MappedPaths == { image_to_marker_map[k] : k \in DOMAIN image_to_marker_map }

\* C2: when the scan ends having accepted N files, the keys of the map are
\* exactly the identities 0 .. N-1, each assigned to exactly one accepted
\* file, no two files share an identity, and the counter runs on from one
\* subfolder to the next.
IdentitiesContiguous ==
    Scanned =>
        LET N == Cardinality(SubfolderImages)
        IN  /\ DOMAIN image_to_marker_map = { IntToStr(i) : i \in 0..(N - 1) }
            /\ current_marker_id = N
            /\ MappedPaths = SubfolderImages
            /\ \A k1, k2 \in DOMAIN image_to_marker_map :
                 image_to_marker_map[k1] = image_to_marker_map[k2] => k1 = k2
            /\ gen_pc = "written" => map_file = image_to_marker_map

\* a finished scan that numbered files of two different subfolders
TwoFoldersNumbered ==
    /\ gen_pc = "written"
    /\ Cardinality(DOMAIN image_to_marker_map) >= 2
    /\ \E k1, k2 \in DOMAIN image_to_marker_map :
         image_to_marker_map[k1][1] # image_to_marker_map[k2][1]

\* C3: identities follow the lexicographic order of the relative file paths:
\* for accepted files p before q, identity(p) < identity(q).
IdentitiesInPathOrder ==
    Scanned =>
        \A k1, k2 \in DOMAIN image_to_marker_map :
            StrLess(image_to_marker_map[k1], image_to_marker_map[k2])
                => StrToInt(k1) < StrToInt(k2)

MarkerPerIdentity ==
    Scanned =>
        /\ Cardinality(DOMAIN marker_files) = Cardinality(DOMAIN image_to_marker_map)
        /\ \A k \in DOMAIN image_to_marker_map :
             \E q \in DOMAIN marker_files : marker_files[q] = StrToInt(k)

\* C6: when the encoder fails for an identity, that entry alone is skipped:
\* generation goes on and the registry file is written.
EncodeFailureSkipsEntry ==
    enc_failures > 0 => gen_pc \in {"walk", "files", "written"}

\* C10: generator and detector use the same dictionary, and every identity
\* the generator assigned and encoded is one the detector can report.
GeneratedIdsDetectable ==
    gen_pc = "written" =>
        /\ dict_type = DET_ARUCO_DICTIONARY_TYPE
        /\ \A k \in DOMAIN image_to_marker_map :
             StrToInt(k) < DictSize(DET_ARUCO_DICTIONARY_TYPE)

====
